---- MODULE Spec2Model ----
(***************************************************************************)
(* Model of the SHIORI message codec of shiori.go: ToMethod and            *)
(* Method.String, ParseHeaderLines and Headers.String, ParseRequest and    *)
(* Request.String, ParseResponse and Response.String.                      *)
(*                                                                         *)
(* A Go string is a sequence of one-character strings.  A Go int is its    *)
(* canonical decimal numeral (a sequence of digits, "-" first when         *)
(* negative), so that the 64-bit range of strconv.Atoi is expressible.     *)
(* A Go map[string]string is a function from a set of strings to strings;  *)
(* its iteration order is a nondeterministic choice of the rendering       *)
(* actions.                                                                *)
(***************************************************************************)
EXTENDS Integers, Sequences, FiniteSets, TLC

VARIABLES op, pc, token, headerLines, requestStr, responseStr, built,
          method, headers, request, response, err, rendered

vars == <<op, pc, token, headerLines, requestStr, responseStr, built,
          method, headers, request, response, err, rendered>>

----------------------------------------------------------------------------
(* Bounds of the explored inputs *)

MaxTokenLen == 3

MaxLineLen == 4

MaxLines == 3

MaxMsgLines == 3

MaxBuiltHeaders == 2

----------------------------------------------------------------------------
(* String helpers *)

CR == "\r"

LF == "\n"

CRLF == <<CR, LF>>

Digits == {"0", "1", "2", "3", "4", "5", "6", "7", "8", "9"}

sGET == <<"G", "E", "T">>

sNOTIFY == <<"N", "O", "T", "I", "F", "Y">>

sSHIORI == <<"S", "H", "I", "O", "R", "I">>

sOK == <<"O", "K">>

Suffix(s, i) == IF i > Len(s) THEN <<>> ELSE SubSeq(s, i, Len(s))

HasPrefixAt(s, i, p) == i + Len(p) - 1 <= Len(s) /\ SubSeq(s, i, i + Len(p) - 1) = p

\* strings.Index: the first position where substr occurs in s, 0 when none
\* (Go's -1).
Index(s, substr) ==
    LET I == {i \in 1..Len(s) : HasPrefixAt(s, i, substr)}
    IN  IF I = {} THEN 0 ELSE CHOOSE i \in I : \A j \in I : i <= j

\* strings.Split(s, sep) for a non-empty sep: the pieces between the
\* occurrences of sep, found left to right and not overlapping; <<s>> when
\* sep does not occur.
RECURSIVE Split(_, _)
Split(s, sep) ==
    LET i == Index(s, sep)
    IN  IF i = 0 THEN <<s>>
        ELSE <<SubSeq(s, 1, i - 1)>> \o Split(Suffix(s, i + Len(sep)), sep)

\* The regexp classes used by the three patterns.  "." does not match a
\* line feed (no s flag); a negated class such as [^:] does; \d is [0-9].
AllDot(s) == \A i \in 1..Len(s) : s[i] # LF

AllDigit(s) == \A i \in 1..Len(s) : s[i] \in Digits

AllNotColon(s) == \A i \in 1..Len(s) : s[i] # ":"

\* \d+\.\d+ matching the whole of s
IsVersion(s) ==
    \E d \in 2..(Len(s) - 1) :
        /\ s[d] = "."
        /\ AllDigit(SubSeq(s, 1, d - 1))
        /\ AllDigit(SubSeq(s, d + 1, Len(s)))

----------------------------------------------------------------------------
(* Errors: nil, or a typed error with its payload *)

Nil == [kind |-> "nil", payload |-> <<>>]

InvalidMethodError(s) == [kind |-> "InvalidMethodError", payload |-> s]

ParseRequestError(s) == [kind |-> "ParseRequestError", payload |-> s]

ParseResponseError(s) == [kind |-> "ParseResponseError", payload |-> s]

ParseHeaderError(s) == [kind |-> "ParseHeaderError", payload |-> s]

\* strconv's *NumError with Err = ErrRange, as Atoi returns it
NumErrorRange(s) == [kind |-> "NumError", payload |-> s]

----------------------------------------------------------------------------
(* Method and Protocol *)

InvalidMethod == 0

GET == 1

NOTIFY == 2

InvalidProtocol == 0

SHIORI == 1

MethodString(m) ==
    CASE m = GET -> sGET
      [] m = NOTIFY -> sNOTIFY
      [] OTHER -> <<>>

\* A ToMethod that folds case before it compares
ToMethodFoldCase(s) ==
    CASE s \in {sGET, <<"g", "e", "t">>, <<"G", "e", "t">>} ->
             [method |-> GET, err |-> Nil]
      [] s \in {sNOTIFY, <<"n", "o", "t", "i", "f", "y">>} ->
             [method |-> NOTIFY, err |-> Nil]
      [] OTHER -> [method |-> InvalidMethod, err |-> InvalidMethodError(s)]

ToMethod(s) ==
    CASE s = sGET -> [method |-> GET, err |-> Nil]
      [] s = sNOTIFY -> [method |-> NOTIFY, err |-> Nil]
      [] OTHER -> [method |-> InvalidMethod, err |-> InvalidMethodError(s)]

ProtocolString(protocol) == sSHIORI
----------------------------------------------------------------------------
(* Headers *)

\* Headers{}: the empty map
EmptyHeaders == [k \in {} |-> <<>>]

\* A Put that keeps the value a key already has
PutIfAbsent(h, key, value) ==
    [k \in DOMAIN h \cup {key} |-> IF k \in DOMAIN h THEN h[k] ELSE value]

\* headers[key] = value
Put(h, key, value) ==
    [k \in DOMAIN h \cup {key} |-> IF k = key THEN value ELSE h[k]]

\* The orders in which a range over the map may visit its keys
Orders(h) ==
    {o \in [1..Cardinality(DOMAIN h) -> DOMAIN h] :
        \A i, j \in DOMAIN o : i # j => o[i] # o[j]}

\* Headers.String, with the keys visited in the given order
RECURSIVE HeadersString(_, _)
HeadersString(h, order) ==
    IF order = <<>> THEN <<>>
    ELSE LET key == Head(order)
         IN  key \o <<":", " ">> \o h[key] \o CRLF
                 \o HeadersString(h, Tail(order))

\* headerRe.FindStringSubmatch for ^([^:]+): (.*)$ : <<>> for nil, else
\* <<whole match, name, value>>.  [^:]+ cannot cross a colon and must be
\* followed by one, so the name ends right before the first colon of the
\* line and the split is unique.
headerRe(line) ==
    LET M == {i \in 2..(Len(line) - 1) :
                 /\ AllNotColon(SubSeq(line, 1, i - 1))
                 /\ line[i] = ":"
                 /\ line[i + 1] = " "
                 /\ AllDot(Suffix(line, i + 2))}
    IN  IF M = {} THEN <<>>
        ELSE LET i == CHOOSE i \in M : TRUE
             IN  <<line, SubSeq(line, 1, i - 1), Suffix(line, i + 2)>>

sHeaderLineParseFailed ==
    <<"h", "e", "a", "d", "e", "r", " ", "l", "i", "n", "e", " ", "p", "a",
      "r", "s", "e", " ", "f", "a", "i", "l", "e", "d", ":", " ">>

\* The loop of ParseHeaderLines with two slips: an empty line skipped
\* (continue for break), the headers read so far dropped on an error
RECURSIVE ParseHeaderLinesSlip(_, _, _, _, _)
ParseHeaderLinesSlip(lines, i, h, skipEmpty, dropPartial) ==
    IF i > Len(lines) THEN [headers |-> h, err |-> Nil]
    ELSE LET line == lines[i]
             headerResult == headerRe(line)
         IN  IF line = <<>>
             THEN IF skipEmpty
                  THEN ParseHeaderLinesSlip(lines, i + 1, h, skipEmpty,
                                            dropPartial)
                  ELSE [headers |-> h, err |-> Nil]
             ELSE IF headerResult = <<>>
                  THEN [headers |-> IF dropPartial THEN EmptyHeaders ELSE h,
                        err |-> ParseHeaderError(sHeaderLineParseFailed \o line)]
                  ELSE ParseHeaderLinesSlip(lines, i + 1,
                           Put(h, headerResult[2], headerResult[3]),
                           skipEmpty, dropPartial)

ParseHeaderLinesSkipEmpty(lines, i, h) ==
    ParseHeaderLinesSlip(lines, i, h, TRUE, FALSE)

ParseHeaderLinesDropPartial(lines, i, h) ==
    ParseHeaderLinesSlip(lines, i, h, FALSE, TRUE)

\* The loop of ParseHeaderLines from line i on, h being the headers so far
RECURSIVE ParseHeaderLinesFrom(_, _, _)
ParseHeaderLinesFrom(lines, i, h) ==
    IF i > Len(lines) THEN [headers |-> h, err |-> Nil]
    ELSE LET line == lines[i]
             headerResult == headerRe(line)
         IN  IF line = <<>> THEN [headers |-> h, err |-> Nil]
             ELSE IF headerResult = <<>>
                  THEN [headers |-> h,
                        err |-> ParseHeaderError(sHeaderLineParseFailed \o line)]
                  ELSE ParseHeaderLinesFrom(lines, i + 1,
                           Put(h, headerResult[2], headerResult[3]))

ParseHeaderLines(lines) == ParseHeaderLinesFrom(lines, 1, EmptyHeaders)

----------------------------------------------------------------------------
(* Integers as numerals: strconv.Atoi and the verb %d *)

MaxInt64 ==
    <<"9", "2", "2", "3", "3", "7", "2", "0", "3", "6", "8", "5", "4", "7",
      "7", "5", "8", "0", "7">>

DigitValue(c) ==
    CASE c = "0" -> 0 [] c = "1" -> 1 [] c = "2" -> 2 [] c = "3" -> 3
      [] c = "4" -> 4 [] c = "5" -> 5 [] c = "6" -> 6 [] c = "7" -> 7
      [] c = "8" -> 8 [] c = "9" -> 9

RECURSIVE StripZeros(_)
StripZeros(s) ==
    IF Len(s) > 1 /\ s[1] = "0" THEN StripZeros(Tail(s)) ELSE s

\* a < b for two numerals of non-negative integers
NumeralLess(a, b) ==
    \/ Len(a) < Len(b)
    \/ /\ Len(a) = Len(b)
       /\ \E i \in 1..Len(a) :
              /\ SubSeq(a, 1, i - 1) = SubSeq(b, 1, i - 1)
              /\ DigitValue(a[i]) < DigitValue(b[i])

\* strconv.Atoi on a string of digits (all statusLineRe lets through): the
\* value, or the largest int and a range error when it does not fit 64 bits.
Atoi(s) ==
    LET n == StripZeros(s)
    IN  IF NumeralLess(MaxInt64, n)
        THEN [n |-> MaxInt64, err |-> NumErrorRange(s)]
        ELSE [n |-> n, err |-> Nil]

----------------------------------------------------------------------------
(* Request *)

requestLineSep == <<" ">> \o sSHIORI \o <<"/">>

\* requestLineRe.FindStringSubmatch for ^(.+) SHIORI/(\d+\.\d+)$ : <<>> for
\* nil, else <<whole match, token, version>>.  The greedy .+ takes the
\* longest token that leaves " SHIORI/" and a version up to the end.
requestLineRe(line) ==
    LET M == {p \in 1..Len(line) :
                 /\ AllDot(SubSeq(line, 1, p))
                 /\ HasPrefixAt(line, p + 1, requestLineSep)
                 /\ IsVersion(Suffix(line, p + 1 + Len(requestLineSep)))}
    IN  IF M = {} THEN <<>>
        ELSE LET p == CHOOSE p \in M : \A q \in M : q <= p
             IN  <<line, SubSeq(line, 1, p),
                   Suffix(line, p + 1 + Len(requestLineSep))>>

sRequestLineParseFailed ==
    <<"r", "e", "q", "u", "e", "s", "t", " ", "l", "i", "n", "e", " ", "p",
      "a", "r", "s", "e", " ", "f", "a", "i", "l", "e", "d", ":", " ">>

\* A Request.String that writes a space for the slash
RequestStringSpace(r, order) ==
    MethodString(r.Method) \o <<" ">> \o ProtocolString(r.Protocol) \o <<" ">>
        \o r.Version \o CRLF \o HeadersString(r.Headers, order) \o CRLF

\* Request.String, with the headers visited in the given order
RequestString(r, order) ==
    MethodString(r.Method) \o <<" ">> \o ProtocolString(r.Protocol) \o <<"/">>
        \o r.Version \o CRLF \o HeadersString(r.Headers, order) \o CRLF

\* A Request{} without its Protocol
NewRequestZero ==
    [Method |-> InvalidMethod, Protocol |-> InvalidProtocol, Version |-> <<>>,
     Headers |-> EmptyHeaders]

\* Request{Protocol: SHIORI}
NewRequest ==
    [Method |-> InvalidMethod, Protocol |-> SHIORI, Version |-> <<>>,
     Headers |-> EmptyHeaders]

\* A ParseRequest that reads the header lines before it converts the method
ParseRequestHeadersFirst(s) ==
    LET request0 == NewRequest
        lines == Split(s, CRLF)
        requestLine == lines[1]
        hLines == Tail(lines)
        requestLineResult == requestLineRe(requestLine)
        h == ParseHeaderLines(hLines)
        request1 == [request0 EXCEPT !.Headers = h.headers]
        m == ToMethod(requestLineResult[2])
        request2 == [request1 EXCEPT !.Method = m.method]
        request3 == [request2 EXCEPT !.Version = requestLineResult[3]]
    IN  IF requestLineResult = <<>>
        THEN [request |-> request0,
              err |-> ParseRequestError(sRequestLineParseFailed \o requestLine)]
        ELSE IF h.err # Nil THEN [request |-> request1, err |-> h.err]
        ELSE IF m.err # Nil THEN [request |-> request2, err |-> m.err]
        ELSE [request |-> request3, err |-> Nil]

ParseRequest(s) ==
    LET request0 == NewRequest
        lines == Split(s, CRLF)
        requestLine == lines[1]
        hLines == Tail(lines)
        requestLineResult == requestLineRe(requestLine)
        m == ToMethod(requestLineResult[2])
        request1 == [request0 EXCEPT !.Method = m.method]
        request2 == [request1 EXCEPT !.Version = requestLineResult[3]]
        h == ParseHeaderLines(hLines)
        request3 == [request2 EXCEPT !.Headers = h.headers]
    IN  IF requestLineResult = <<>>
        THEN [request |-> request0,
              err |-> ParseRequestError(sRequestLineParseFailed \o requestLine)]
        ELSE IF m.err # Nil THEN [request |-> request1, err |-> m.err]
        ELSE [request |-> request3, err |-> h.err]

----------------------------------------------------------------------------
(* Response *)

c200 == <<"2", "0", "0">>

\* A Message that says "OK" for every code
MessageAlwaysOK(r) == sOK

\* A Message that knows no code
MessageNone(r) == <<>>

\* Response.Message
Message(r) ==
    CASE r.Code = c200 -> sOK
      [] OTHER -> <<>>

\* Response.String, with the headers visited in the given order
ResponseString(r, order) ==
    ProtocolString(r.Protocol) \o <<"/">> \o r.Version \o <<" ">> \o r.Code
        \o <<" ">> \o Message(r) \o CRLF \o HeadersString(r.Headers, order)
        \o CRLF

statusLinePrefix == sSHIORI \o <<"/">>

\* statusLineRe.FindStringSubmatch for ^SHIORI/(\d+\.\d+) (\d+) (.+)$ :
\* <<>> for nil, else <<whole match, version, code, reason>>.  Neither the
\* version nor the code holds a space, so the two separating spaces, and
\* with them the split, are unique.
statusLineRe(line) ==
    LET n == Len(statusLinePrefix)
        M == {m \in (1..Len(line)) \X (1..Len(line)) :
                 /\ HasPrefixAt(line, 1, statusLinePrefix)
                 /\ n < m[1] /\ m[1] < m[2] /\ m[2] < Len(line)
                 /\ line[m[1]] = " " /\ line[m[2]] = " "
                 /\ IsVersion(SubSeq(line, n + 1, m[1] - 1))
                 /\ m[1] + 1 < m[2]
                 /\ AllDigit(SubSeq(line, m[1] + 1, m[2] - 1))
                 /\ AllDot(Suffix(line, m[2] + 1))}
    IN  IF M = {} THEN <<>>
        ELSE LET m == CHOOSE m \in M : TRUE
             IN  <<line, SubSeq(line, n + 1, m[1] - 1),
                   SubSeq(line, m[1] + 1, m[2] - 1), Suffix(line, m[2] + 1)>>

sStatusLineParseFailed ==
    <<"s", "t", "a", "t", "u", "s", " ", "l", "i", "n", "e", " ", "p", "a",
      "r", "s", "e", " ", "f", "a", "i", "l", "e", "d", ":", " ">>

\* Response{Protocol: SHIORI}
NewResponse ==
    [Code |-> <<"0">>, Protocol |-> SHIORI, Version |-> <<>>,
     Headers |-> EmptyHeaders]

ParseResponse(s) ==
    LET response0 == NewResponse
        lines == Split(s, CRLF)
        statusLine == lines[1]
        hLines == Tail(lines)
        statusLineResult == statusLineRe(statusLine)
        response1 == [response0 EXCEPT !.Version = statusLineResult[2]]
        code == Atoi(statusLineResult[3])
        response2 == [response1 EXCEPT !.Code = code.n]
        h == ParseHeaderLines(hLines)
        response3 == [response2 EXCEPT !.Headers = h.headers]
    IN  IF statusLineResult = <<>>
        THEN [response |-> response0,
              err |-> ParseResponseError(sStatusLineParseFailed \o statusLine)]
        ELSE IF code.err # Nil THEN [response |-> response2, err |-> code.err]
        ELSE [response |-> response3, err |-> h.err]
----------------------------------------------------------------------------
(* The inputs a caller may hand to the package *)

\* All strings over the characters chars of length at most n
StringsUpTo(chars, n) == UNION {[1..k -> chars] : k \in 0..n}

TokenChars == {"G", "E", "T", "g", " "}

\* Method tokens: the two valid ones and near misses
TokenSamples ==
    {<<>>, <<"G", "E", "T">>, <<"N", "O", "T", "I", "F", "Y">>,
     <<"g", "e", "t">>, <<"G", "e", "t">>, <<"n", "o", "t", "i", "f", "y">>,
     <<"N", "O", "T", "I", "F", "Y", " ">>,
     <<" ", "N", "O", "T", "I", "F", "Y">>, <<"N", "O", "T", "I", "F">>,
     <<"G", "E", "T", "S">>, <<"F", "O", "O">>}

Tokens == TokenSamples \cup StringsUpTo(TokenChars, MaxTokenLen)

LineChars == {"A", ":", " ", CR, LF}

\* Header lines: well formed, malformed, and the empty line
HeaderLineSamples ==
    {<<>>, <<"A", ":", " ", "1">>, <<"A", ":", " ", "2">>, <<"B", ":", " ">>,
     <<"B", ":", " ", ":">>, <<"A">>, <<"A", ":", "1">>,
     <<"A", ":", " ", CR>>, <<"A", ":", " ", LF>>,
     <<LF, "B", ":", " ", "1">>}

HeaderLineInputs ==
    {<<l>> : l \in StringsUpTo(LineChars, MaxLineLen)}
        \cup StringsUpTo(HeaderLineSamples, MaxLines)

\* Request lines
RequestLineSamples ==
    {<<"G", "E", "T", " ", "S", "H", "I", "O", "R", "I", "/", "3", ".", "0">>,
     <<"N", "O", "T", "I", "F", "Y", " ", "S", "H", "I", "O", "R", "I", "/",
       "2", ".", "6">>,
     <<"G", "E", "T", " ", "S", "H", "I", "O", "R", "I", "/", "1", "2", ".",
       "3", "4">>,
     <<"F", "O", "O", " ", "S", "H", "I", "O", "R", "I", "/", "1", ".", "0">>,
     <<"g", "e", "t", " ", "S", "H", "I", "O", "R", "I", "/", "3", ".", "0">>,
     <<"G", "E", "T", " ", " ", "S", "H", "I", "O", "R", "I", "/", "3", ".",
       "0">>,
     <<"G", "E", "T", " ", "S", "H", "I", "O", "R", "I", "/", "3", ".", "0",
       " ", "S", "H", "I", "O", "R", "I", "/", "2", ".", "0">>,
     <<"G", "E", "T", " ", "S", "H", "I", "O", "R", "I", "/", "3">>,
     <<"G", "E", "T", " ", "S", "H", "I", "O", "R", "I", "/", "3", ".", "0",
       " ">>, <<" ", "S", "H", "I", "O", "R", "I", "/", "3", ".", "0">>,
     <<"G", LF, "E", "T", " ", "S", "H", "I", "O", "R", "I", "/", "3", ".",
       "0">>, <<>>}

\* Status lines
StatusLineSamples ==
    {<<"S", "H", "I", "O", "R", "I", "/", "3", ".", "0", " ", "2", "0", "0",
       " ", "O", "K">>,
     <<"S", "H", "I", "O", "R", "I", "/", "3", ".", "0", " ", "2", "0", "0",
       " ", "F", "i", "n", "e">>,
     <<"S", "H", "I", "O", "R", "I", "/", "3", ".", "0", " ", "0", "2", "0",
       "0", " ", "O", "K">>,
     <<"S", "H", "I", "O", "R", "I", "/", "3", ".", "0", " ", "5", "0", "0",
       " ", "N", "o", " ", "g", "o", "o", "d">>,
     <<"S", "H", "I", "O", "R", "I", "/", "1", "2", ".", "3", "4", " ", "2",
       "0", "4", " ", "x">>,
     <<"S", "H", "I", "O", "R", "I", "/", "3", ".", "0", " ", "0", " ", "x">>,
     <<"S", "H", "I", "O", "R", "I", "/", "3", ".", "0", " ", "2", "0", "0",
       " ">>,
     <<"S", "H", "I", "O", "R", "I", "/", "3", ".", "0", " ", "2", "0", "0">>,
     <<"S", "H", "I", "O", "R", "I", "/", "3", " ", "2", "0", "0", " ", "O",
       "K">>,
     <<"S", "H", "I", "O", "R", "I", "/", "3", ".", "0", " ", "9", "2", "2",
       "3", "3", "7", "2", "0", "3", "6", "8", "5", "4", "7", "7", "5", "8",
       "0", "7", " ", "x">>,
     <<"S", "H", "I", "O", "R", "I", "/", "3", ".", "0", " ", "9", "2", "2",
       "3", "3", "7", "2", "0", "3", "6", "8", "5", "4", "7", "7", "5", "8",
       "0", "8", " ", "x">>,
     <<"S", "H", "I", "O", "R", "I", "/", "3", ".", "0", " ", "2", "x", "0",
       " ", "O", "K">>,
     <<"S", "H", "I", "O", "R", "I", "/", "3", ".", "0", " ", "2", "0", "0",
       " ", "O", LF, "K">>,
     <<"G", "E", "T", " ", "S", "H", "I", "O", "R", "I", "/", "3", ".", "0">>,
     <<>>}

\* strings.Join(lines, sep)
RECURSIVE Join(_, _)
Join(lines, sep) ==
    IF lines = <<>> THEN <<>>
    ELSE IF Len(lines) = 1 THEN lines[1]
    ELSE lines[1] \o sep \o Join(Tail(lines), sep)

\* The lines that follow the first line of a message
MessageLineSamples ==
    {<<>>, <<"A", ":", " ", "1">>, <<"A", ":", " ", "2">>, <<"A">>,
     <<"A", ":", " ", CR>>, <<LF, "B", ":", " ", "1">>}

Messages(firstLines) ==
    {Join(<<first>> \o rest, CRLF) :
        first \in firstLines,
        rest \in StringsUpTo(MessageLineSamples, MaxMsgLines)}

\* Header names and values of a Response built by a caller
NameSamples ==
    {<<"A">>, <<LF, "B">>, <<"A", CR, LF, "B">>, <<"A", ":">>}

ValueSamples ==
    {<<>>, <<"1">>, <<CR>>, <<LF>>, <<"1", CR, LF, "B", ":", " ", "2">>}

\* Codes (numerals) and versions of such a Response
CodeSamples ==
    {<<"2", "0", "0">>, <<"4", "0", "4">>, <<"0">>, <<"-", "1">>}

VersionSamples ==
    {<<"3", ".", "0">>, <<"3">>}

HeaderMaps ==
    UNION {[names -> ValueSamples] :
              names \in {n \in SUBSET NameSamples : Cardinality(n) <= MaxBuiltHeaders}}

Responses ==
    [Code : CodeSamples, Protocol : {SHIORI, InvalidProtocol},
     Version : VersionSamples, Headers : HeaderMaps]

----------------------------------------------------------------------------
(* The state machine: a caller picks an entry point and an input, calls it,
   and renders (or parses back) what it returned *)

ZeroRequest ==
    [Method |-> InvalidMethod, Protocol |-> InvalidProtocol, Version |-> <<>>,
     Headers |-> EmptyHeaders]

ZeroResponse ==
    [Code |-> <<"0">>, Protocol |-> InvalidProtocol, Version |-> <<>>,
     Headers |-> EmptyHeaders]

Idle ==
    /\ pc = "call"
    /\ method = InvalidMethod
    /\ headers = EmptyHeaders
    /\ request = ZeroRequest
    /\ response = ZeroResponse
    /\ err = Nil
    /\ rendered = <<>>

InitMethod ==
    /\ Idle
    /\ op = "ToMethod"
    /\ token \in Tokens
    /\ headerLines = <<>> /\ requestStr = <<>> /\ responseStr = <<>>
    /\ built = ZeroResponse

InitHeaders ==
    /\ Idle
    /\ op = "ParseHeaderLines"
    /\ headerLines \in HeaderLineInputs
    /\ token = <<>> /\ requestStr = <<>> /\ responseStr = <<>>
    /\ built = ZeroResponse

InitParse ==
    /\ Idle
    /\ token = <<>> /\ headerLines = <<>> /\ built = ZeroResponse
    /\ \/ /\ op = "ParseRequest"
          /\ requestStr \in Messages(RequestLineSamples)
          /\ responseStr = <<>>
       \/ /\ op = "ParseResponse"
          /\ responseStr \in Messages(StatusLineSamples)
          /\ requestStr = <<>>

InitRender ==
    /\ Idle
    /\ op = "ResponseString"
    /\ built \in Responses
    /\ token = <<>> /\ headerLines = <<>> /\ requestStr = <<>>
    /\ responseStr = <<>>

Init == InitMethod \/ InitHeaders \/ InitParse \/ InitRender

inputs == <<op, token, headerLines, requestStr, responseStr, built>>

CallToMethod ==
    /\ op = "ToMethod" /\ pc = "call"
    /\ method' = ToMethod(token).method
    /\ err' = ToMethod(token).err
    /\ pc' = "returned"
    /\ UNCHANGED <<inputs, headers, request, response, rendered>>

CallMethodString ==
    /\ op = "ToMethod" /\ pc = "returned"
    /\ rendered' = MethodString(method)
    /\ pc' = "rendered"
    /\ UNCHANGED <<inputs, method, headers, request, response, err>>

CallParseHeaderLines ==
    /\ op = "ParseHeaderLines" /\ pc = "call"
    /\ headers' = ParseHeaderLines(headerLines).headers
    /\ err' = ParseHeaderLines(headerLines).err
    /\ pc' = "returned"
    /\ UNCHANGED <<inputs, method, request, response, rendered>>

CallHeadersString ==
    /\ op = "ParseHeaderLines" /\ pc = "returned"
    /\ \E order \in Orders(headers) : rendered' = HeadersString(headers, order)
    /\ pc' = "rendered"
    /\ UNCHANGED <<inputs, method, headers, request, response, err>>

CallParseRequest ==
    /\ op = "ParseRequest" /\ pc = "call"
    /\ request' = ParseRequest(requestStr).request
    /\ err' = ParseRequest(requestStr).err
    /\ pc' = "returned"
    /\ UNCHANGED <<inputs, method, headers, response, rendered>>

CallRequestString ==
    /\ op = "ParseRequest" /\ pc = "returned"
    /\ \E order \in Orders(request.Headers) :
           rendered' = RequestString(request, order)
    /\ pc' = "rendered"
    /\ UNCHANGED <<inputs, method, headers, request, response, err>>

CallParseResponse ==
    /\ op = "ParseResponse" /\ pc = "call"
    /\ response' = ParseResponse(responseStr).response
    /\ err' = ParseResponse(responseStr).err
    /\ pc' = "returned"
    /\ UNCHANGED <<inputs, method, headers, request, rendered>>

CallResponseString ==
    /\ op = "ParseResponse" /\ pc = "returned"
    /\ \E order \in Orders(response.Headers) :
           rendered' = ResponseString(response, order)
    /\ pc' = "rendered"
    /\ UNCHANGED <<inputs, method, headers, request, response, err>>

\* Response.String on a Response the caller built itself ...
RenderBuilt ==
    /\ op = "ResponseString" /\ pc = "call"
    /\ \E order \in Orders(built.Headers) :
           rendered' = ResponseString(built, order)
    /\ pc' = "rendered"
    /\ UNCHANGED <<inputs, method, headers, request, response, err>>

\* ... and ParseResponse on the text it rendered
ParseRendered ==
    /\ op = "ResponseString" /\ pc = "rendered"
    /\ response' = ParseResponse(rendered).response
    /\ err' = ParseResponse(rendered).err
    /\ pc' = "reparsed"
    /\ UNCHANGED <<inputs, method, headers, request, rendered>>

NextMethod == CallToMethod \/ CallMethodString

NextHeaders == CallParseHeaderLines \/ CallHeadersString

NextParse ==
    \/ CallParseRequest
    \/ CallRequestString
    \/ CallParseResponse
    \/ CallResponseString

NextRender == RenderBuilt \/ ParseRendered

Next == NextMethod \/ NextHeaders \/ NextParse \/ NextRender

Spec == Init /\ [][Next]_vars

SpecMethod == InitMethod /\ [][NextMethod]_vars

SpecHeaders == InitHeaders /\ [][NextHeaders]_vars

SpecParse == InitParse /\ [][NextParse]_vars

SpecRender == InitRender /\ [][NextRender]_vars
----------------------------------------------------------------------------
(* Vocabulary of the properties *)

\* The header block of a sequence of lines: the lines before the first
\* empty one
FirstEmpty(lines) ==
    LET E == {i \in 1..Len(lines) : lines[i] = <<>>}
    IN  IF E = {} THEN Len(lines) + 1 ELSE CHOOSE i \in E : \A j \in E : i <= j

Block(lines) == SubSeq(lines, 1, FirstEmpty(lines) - 1)

\* A line read as name ": " value at its first colon
NameOf(line) == SubSeq(line, 1, Index(line, <<":">>) - 1)

ValueOf(line) == Suffix(line, Index(line, <<":">>) + 2)

\* A line that headerRe does not match
Mismatch(line) == headerRe(line) = <<>>

FirstMismatch(lines) ==
    LET B == {i \in 1..Len(lines) : Mismatch(lines[i])}
    IN  IF B = {} THEN 0 ELSE CHOOSE i \in B : \A j \in B : i <= j

\* The mapping a sequence of well-formed header lines stands for: one entry
\* per distinct name, holding the value of the name's last line
LastWins(lines) ==
    [n \in {NameOf(lines[i]) : i \in 1..Len(lines)} |->
        ValueOf(lines[CHOOSE i \in 1..Len(lines) :
                        /\ NameOf(lines[i]) = n
                        /\ \A j \in (i + 1)..Len(lines) : NameOf(lines[j]) # n])]

HeadersReturned == op = "ParseHeaderLines" /\ pc # "call"

----------------------------------------------------------------------------
(* C3 *)

\* C3: ToMethod succeeds exactly on the tokens "GET" and "NOTIFY", and
\* Method.String of its result is then the token again; on every other token
\* it returns InvalidMethod and an InvalidMethodError carrying that token.
C3_ToMethod ==
    (op = "ToMethod" /\ pc # "call") =>
        IF token \in {sGET, sNOTIFY}
        THEN /\ err = Nil
             /\ method \in {GET, NOTIFY}
             /\ pc = "rendered" => rendered = token
        ELSE /\ method = InvalidMethod
             /\ err = [kind |-> "InvalidMethodError", payload |-> token]

C3_Witness ==
    /\ op = "ToMethod" /\ pc = "rendered"
    /\ token = sNOTIFY /\ method = NOTIFY /\ rendered = sNOTIFY

----------------------------------------------------------------------------
(* C4 - C7: ParseHeaderLines *)

\* C4: ParseHeaderLines stops at the first empty line: an error always names
\* a mismatching line of the block before it, every returned entry comes
\* from a line of that block, a block without a mismatching line gives nil
\* whatever follows the empty line, and a first line that is empty gives the
\* empty mapping and nil.
C4_StopsAtEmptyLine ==
    HeadersReturned =>
        LET block == Block(headerLines)
        IN  /\ err # Nil =>
                \E i \in 1..Len(block) :
                    /\ Mismatch(block[i])
                    /\ err.payload = sHeaderLineParseFailed \o block[i]
            /\ (\A i \in 1..Len(block) : ~Mismatch(block[i])) => err = Nil
            /\ \A n \in DOMAIN headers :
                   \E i \in 1..Len(block) :
                       NameOf(block[i]) = n /\ ValueOf(block[i]) = headers[n]
            /\ (headerLines # <<>> /\ headerLines[1] = <<>>) =>
                   (headers = EmptyHeaders /\ err = Nil)

C4_Witness ==
    /\ HeadersReturned
    /\ err = Nil
    /\ DOMAIN headers # {}
    /\ \E i \in 1..Len(headerLines) :
           i > FirstEmpty(headerLines) /\ Mismatch(headerLines[i])

\* C5: when a line of the block mismatches, ParseHeaderLines fails with a
\* ParseHeaderError naming the first such line, and the mapping returned with
\* it holds exactly the headers of the lines before that line.
C5_FailsAtFirstMismatch ==
    HeadersReturned =>
        LET block == Block(headerLines)
            b == FirstMismatch(block)
        IN  b # 0 =>
                /\ err = [kind |-> "ParseHeaderError",
                          payload |-> sHeaderLineParseFailed \o block[b]]
                /\ headers = LastWins(SubSeq(block, 1, b - 1))

C5_Witness ==
    /\ HeadersReturned
    /\ err.kind = "ParseHeaderError"
    /\ DOMAIN headers # {}
    /\ LET b == FirstMismatch(Block(headerLines))
       IN  /\ b > 1
           /\ b < Len(headerLines)
           /\ ~Mismatch(headerLines[b + 1])
           /\ headerLines[b + 1] # <<>>
           /\ NameOf(headerLines[b + 1]) \notin DOMAIN headers

\* C6: for a block of well-formed lines the returned mapping has one entry
\* per distinct name, holding the value of the name's last line.
C6_LastWriteWins ==
    HeadersReturned =>
        LET block == Block(headerLines)
        IN  FirstMismatch(block) = 0 =>
                (err = Nil /\ headers = LastWins(block))

C6_Witness ==
    /\ HeadersReturned
    /\ err = Nil
    /\ \E i, j \in 1..Len(Block(headerLines)) :
           /\ i < j
           /\ NameOf(headerLines[i]) = NameOf(headerLines[j])
           /\ ValueOf(headerLines[i]) # ValueOf(headerLines[j])
           /\ headers[NameOf(headerLines[j])] = ValueOf(headerLines[j])
           /\ \A k \in (j + 1)..Len(Block(headerLines)) :
                  NameOf(headerLines[k]) # NameOf(headerLines[j])

\* The form C7 speaks of: a non-empty colon-free name, then ": ", then a
\* value without the sequence CR LF
ClaimedHeaderForm(line) ==
    LET c == Index(line, <<":">>)
    IN  /\ c > 1
        /\ HasPrefixAt(line, c, <<":", " ">>)
        /\ Index(ValueOf(line), CRLF) = 0

\* C7: ParseHeaderLines accepts every line name ": " value with a non-empty
\* colon-free name and a value free of CR LF (a value holding a lone CR or a
\* lone LF included), storing the value under the name, and rejects only the
\* lines that are not of this form.
C7_AcceptsClaimedForm ==
    (HeadersReturned /\ Len(headerLines) = 1 /\ headerLines[1] # <<>>) =>
        LET line == headerLines[1]
        IN  IF ClaimedHeaderForm(line)
            THEN /\ err = Nil
                 /\ DOMAIN headers = {NameOf(line)}
                 /\ headers[NameOf(line)] = ValueOf(line)
            ELSE err.kind = "ParseHeaderError"
----------------------------------------------------------------------------
(* C1, C2, C8, C9: ParseRequest, ParseResponse and the renderings *)

\* The lines of the input, of its header block, and of the rendered text
RequestLines == Split(requestStr, CRLF)

ResponseLines == Split(responseStr, CRLF)

RenderedLines == Split(rendered, CRLF)

\* The header lines a block stands for: of each name, the last line
LastLines(block) ==
    {block[i] : i \in {i \in 1..Len(block) :
        \A j \in (i + 1)..Len(block) : NameOf(block[j]) # NameOf(block[i])}}

\* The rendered text consists of the line first, the header lines of block
\* in some order, each once, and the empty line that ends the block
RendersAs(first, block) ==
    LET out == RenderedLines
        n == Cardinality(LastLines(block))
    IN  /\ Len(out) = n + 3
        /\ out[1] = first
        /\ {out[i] : i \in 2..(n + 1)} = LastLines(block)
        /\ out[n + 2] = <<>>
        /\ out[n + 3] = <<>>

\* C1: for a text that ParseRequest accepts, Request.String of the result has
\* the method and version tokens of the input's request line, and as header
\* lines, in some order, exactly the name/value pairs of the input's header
\* block with duplicate names collapsed to their last value.
C1_RequestRoundTrip ==
    (op = "ParseRequest" /\ pc = "rendered" /\ err = Nil) =>
        LET m == requestLineRe(RequestLines[1])
        IN  RendersAs(m[2] \o requestLineSep \o m[3],
                      Block(Tail(RequestLines)))

C1_Witness ==
    /\ op = "ParseRequest" /\ pc = "rendered" /\ err = Nil
    /\ Cardinality(DOMAIN request.Headers) = 2
    /\ \E k \in DOMAIN request.Headers : CR \in {request.Headers[k][i] : i \in 1..Len(request.Headers[k])}
    /\ Len(RenderedLines) = 5

\* C2 as claimed: for a text that ParseResponse accepts, Response.String of
\* the result has the version and the status code of the input's status line
\* verbatim, the reason phrase "OK" for code 200 and none otherwise, and the
\* header lines of the input's header block.
C2_Original ==
    (op = "ParseResponse" /\ pc = "rendered" /\ err = Nil) =>
        LET m == statusLineRe(ResponseLines[1])
        IN  RendersAs(statusLinePrefix \o m[2] \o <<" ">> \o m[3] \o <<" ">>
                          \o (IF Atoi(m[3]).n = c200 THEN sOK ELSE <<>>),
                      Block(Tail(ResponseLines)))

\* C2 as amended: the status code is rendered by its value, in decimal
\* without the leading zeros the input may have had; the rest as claimed.
C2_ResponseRoundTrip ==
    (op = "ParseResponse" /\ pc = "rendered" /\ err = Nil) =>
        LET m == statusLineRe(ResponseLines[1])
        IN  RendersAs(statusLinePrefix \o m[2] \o <<" ">> \o StripZeros(m[3])
                          \o <<" ">>
                          \o (IF StripZeros(m[3]) = c200 THEN sOK ELSE <<>>),
                      Block(Tail(ResponseLines)))

C2_Witness ==
    /\ op = "ParseResponse" /\ pc = "rendered" /\ err = Nil
    /\ statusLineRe(ResponseLines[1])[3] = <<"0">> \o c200
    /\ RenderedLines[1] = statusLinePrefix \o <<"3", ".", "0", " ">> \o c200
                              \o <<" ">> \o sOK
    /\ Cardinality(DOMAIN response.Headers) = 2

\* C8: ParseRequest checks in a fixed order and the first failing stage
\* decides the error: a request line that requestLineRe does not match gives
\* a ParseRequestError with the line; else a token other than GET and NOTIFY
\* gives an InvalidMethodError with the token, whatever the header lines are;
\* else a mismatching header line gives a ParseHeaderError, and the Request
\* returned with it has the Method and Version of the request line.
C8_ErrorOrder ==
    (op = "ParseRequest" /\ pc # "call") =>
        LET line == RequestLines[1]
            m == requestLineRe(line)
            block == Block(Tail(RequestLines))
        IN  IF m = <<>>
            THEN err = [kind |-> "ParseRequestError",
                        payload |-> sRequestLineParseFailed \o line]
            ELSE IF m[2] \notin {sGET, sNOTIFY}
            THEN err = [kind |-> "InvalidMethodError", payload |-> m[2]]
            ELSE IF FirstMismatch(block) # 0
            THEN /\ err.kind = "ParseHeaderError"
                 /\ request.Method = (IF m[2] = sGET THEN GET ELSE NOTIFY)
                 /\ request.Version = m[3]
            ELSE err = Nil

C8_Witness ==
    /\ op = "ParseRequest" /\ pc = "returned"
    /\ err = [kind |-> "InvalidMethodError", payload |-> <<"F", "O", "O">>]
    /\ FirstMismatch(Block(Tail(RequestLines))) # 0

\* C9: a Request that ParseRequest returns with nil error has Protocol SHIORI
\* and Method GET or NOTIFY, and a Response that ParseResponse returns with
\* nil error has Protocol SHIORI.
C9_ProtocolAndMethod ==
    /\ (op = "ParseRequest" /\ pc # "call" /\ err = Nil) =>
           (request.Protocol = SHIORI /\ request.Method \in {GET, NOTIFY})
    /\ (op = "ParseResponse" /\ pc # "call" /\ err = Nil) =>
           response.Protocol = SHIORI

C9_Witness ==
    /\ op = "ParseRequest" /\ pc = "returned" /\ err = Nil
    /\ request.Protocol = SHIORI /\ request.Method = NOTIFY

----------------------------------------------------------------------------
(* C10: Response.String, then ParseResponse *)

Contains(s, c) == \E i \in 1..Len(s) : s[i] = c

\* What C10 asks of the Response: a version digits.digits, a code that is
\* not negative, header names that are non-empty and colon-free
ClaimedResponse(r) ==
    /\ IsVersion(r.Version)
    /\ r.Code[1] # "-"
    /\ \A n \in DOMAIN r.Headers : n # <<>> /\ ~Contains(n, ":")

\* What the parser needs besides: no CR LF in a name, no LF in a value
SurvivesWire(r) ==
    \A n \in DOMAIN r.Headers :
        Index(n, CRLF) = 0 /\ ~Contains(r.Headers[n], LF)

RoundTrip ==
    IF built.Code = c200
    THEN /\ err = Nil
         /\ response.Code = built.Code
         /\ response.Version = built.Version
         /\ response.Headers = built.Headers
    ELSE /\ RenderedLines[1][Len(RenderedLines[1])] = " "
         /\ err.kind = "ParseResponseError"

\* An LF of s that does not follow a CR
LoneLF(s) == \E i \in 1..Len(s) : s[i] = LF /\ (i = 1 \/ s[i - 1] # CR)

\* C10 as claimed: for such a Response, ParseResponse of its rendering gives
\* nil and the same Code, Version and headers when the code is 200, and for
\* every other code the rendered status line ends in an empty reason phrase
\* and ParseResponse fails with a ParseResponseError.  It is stated here for
\* the Responses without a lone LF in a header value only: those fail for
\* the reason C7 does, and the claim fails without them.
C10_Original ==
    (op = "ResponseString" /\ pc = "reparsed" /\ ClaimedResponse(built)
        /\ \A n \in DOMAIN built.Headers : ~LoneLF(built.Headers[n])) =>
        RoundTrip

\* C10 as amended: the same, for a Response whose header names hold no CR LF
\* and whose header values hold no LF.
C10_RenderThenParse ==
    (op = "ResponseString" /\ pc = "reparsed" /\ ClaimedResponse(built)
        /\ SurvivesWire(built)) => RoundTrip

C10_Witness ==
    /\ op = "ResponseString" /\ pc = "reparsed"
    /\ ClaimedResponse(built) /\ SurvivesWire(built)
    /\ built.Code = c200
    /\ Cardinality(DOMAIN built.Headers) = 2
    /\ \E n \in DOMAIN built.Headers : built.Headers[n] = <<CR>>
    /\ err = Nil /\ response.Headers = built.Headers

====
